---- MODULE Spec2Model ----
(***************************************************************************)
(* Model of the CO2 what-if simulator core:                                *)
(*   simulation.py    _normalize_changes, run_simulation  (the facade)     *)
(*   rules_engine.py  rules, apply_rules                  (the engine)     *)
(*                                                                         *)
(* Python objects live in a heap indexed by object identity, and the       *)
(* parameters and locals of apply_rules that name dicts are references     *)
(* into it, so that aliasing (and therefore mutation of a caller's         *)
(* object) is something the model can express.                             *)
(*                                                                         *)
(* A Python float is modelled as a fixed-point number: the integer n       *)
(* stands for n / Scale.  Products and quotients round to the nearest      *)
(* representable number, sums are exact.  The tolerance is kept in units   *)
(* of 10^-6 (TolDen per unit) so that the default 1e-6 is representable.   *)
(***************************************************************************)
EXTENDS Integers, FiniteSets, Sequences, TLC

VARIABLES
    entry,           \* function the caller invoked: "run_simulation" | "apply_rules" | "_normalize_changes"
    heap,            \* object identity -> Python object
    sector_changes,  \* apply_rules parameter: reference to the change map
    rules_map,       \* apply_rules parameter: reference to the graph (or to None)
    max_iterations,  \* apply_rules parameter
    tol,             \* apply_rules parameter, in units of 10^-6
    updated,         \* apply_rules local: reference to the working map, "unbound" before line 60
    direct_delta,    \* apply_rules local (dict sector -> float)
    current_delta,   \* apply_rules local: the frontier
    next_delta,      \* apply_rules local: next frontier built by the latest round
    max_change,      \* apply_rules local: largest |effect| of the latest round
    damping_factor,  \* apply_rules local
    iteration,       \* number of values the for-loop header has drawn from range(max_iterations)
    rounds,          \* history: number of executions of the propagation body (lines 94-108)
    cascaded,        \* history: per sector, the sum of the next_delta entries of the rounds run so far
    result,          \* reference returned to the caller, "unbound" until return
    error,           \* exception raised to the caller, "none" if none
    pc               \* control position

vars == <<entry, heap, sector_changes, rules_map, max_iterations, tol, updated,
          direct_delta, current_delta, next_delta, max_change, damping_factor,
          iteration, rounds, cascaded, result, error, pc>>

----------------------------------------------------------------------------
(* Bounds of the model *)

MaxChanges == 2      \* at most this many entries in the caller's change map
MaxIterBound == 2    \* apply_rules called directly gets max_iterations in 0..MaxIterBound

----------------------------------------------------------------------------
(* Floats as fixed-point numbers *)

Scale == 10^4
TolDen == 10^2       \* tolerance units per fixed-point unit

Abs(x) == IF x < 0 THEN -x ELSE x

Max(a, b) == IF a >= b THEN a ELSE b

\* a * b of two floats, rounded to nearest
Mul(a, b) ==
    LET m  == Abs(a)
        n  == Abs(b)
        q1 == m \div Scale
        r1 == m % Scale
        q2 == n \div Scale
        r2 == n % Scale
        p  == q1 * q2 * Scale + q1 * r2 + q2 * r1 + (r1 * r2 + Scale \div 2) \div Scale
    IN  IF (a < 0) # (b < 0) THEN -p ELSE p

\* a / 100.0, rounded to nearest
Div100(a) ==
    LET p == (Abs(a) + 50) \div 100
    IN  IF a < 0 THEN -p ELSE p

\* abs(x) < t and abs(x) <= t for a float x and a tolerance t (units of 10^-6)
AbsLt(x, t) == Abs(x) < (t + TolDen - 1) \div TolDen

AbsLe(x, t) == Abs(x) <= t \div TolDen

----------------------------------------------------------------------------
(* Python values and objects *)

Float(n) == [t |-> "float", v |-> n]

\* a value float() cannot convert, e.g. the string "abc"
NonNumeric == [t |-> "str", v |-> 0]

\* float(x) succeeds
CanFloat(x) == x.t = "float"

\* float(x) when it succeeds
ToFloat(x) == x.v

EmptyDict == [s \in {} |-> 0]

Dict(f) == [kind |-> "dict", items |-> f]

NoneObj == [kind |-> "none", items |-> EmptyDict]

\* a str passed where a mapping is expected, e.g. "not a mapping"
StrObj == [kind |-> "str", items |-> EmptyDict]

Unallocated == [kind |-> "unallocated", items |-> EmptyDict]

\* variant: `sector_data is not None`
IsDict_NotNone(o) == o.kind # "none"

\* isinstance(o, dict)
IsDict(o) == o.kind = "dict"

\* o.items() and o.keys() exist: true of a dict, an AttributeError for None or a str
HasItems(o) == o.kind = "dict"

\* `o or {}`: None and the empty dict are falsy, a str such as "not a mapping" is truthy
OrEmpty(o) == IF o.kind = "none" \/ (o.kind = "dict" /\ DOMAIN o.items = {}) THEN Dict(EmptyDict) ELSE o

\* d.get(k, default) on a dict of floats
Get(d, k, default) == IF k \in DOMAIN d THEN d[k] ELSE default

ObjIds == {"arg_data", "arg_changes", "arg_rules", "rules", "normalized", "updated"}

\* objects owned by the caller or by the module, alive before the call
CallerObjs == {"arg_data", "arg_changes", "arg_rules", "rules"}

----------------------------------------------------------------------------
(* The module-level default graph, rules_engine.py lines 33-38 *)

C(n) == Float(n)

rules ==
    Dict([a \in {"transport", "industry", "residential", "power"} |->
            CASE a = "transport"   -> [b \in {"industry", "power"} |->
                                          IF b = "industry" THEN C(-500) ELSE C(-200)]
              [] a = "industry"    -> [b \in {"power"} |-> C(-800)]
              [] a = "residential" -> [b \in {"power"} |-> C(-300)]
              [] OTHER             -> EmptyDict])

DefaultMaxIterations == 10

DefaultTol == 1

DampingInit == 8000

DampingDecay == 9000

----------------------------------------------------------------------------
(* Inputs the caller may pass *)

Sectors == {"transport", "industry", "power"}

BaseValue(s) ==
    CASE s = "transport" -> 1000 * Scale
      [] s = "industry"  -> 2000 * Scale
      [] OTHER           -> 3000 * Scale

ValueChoices == {"absent", "base", "zero", "str"}

ValueMaps ==
    { [s \in {x \in Sectors : c[x] # "absent"} |->
          CASE c[s] = "base" -> Float(BaseValue(s))
            [] c[s] = "zero" -> Float(0)
            [] OTHER         -> NonNumeric]
      : c \in [Sectors -> ValueChoices] }

DataArgs == {Dict(f) : f \in ValueMaps} \cup {StrObj}

\* raw changes handed to the facade: percents, fractions, malformed
RawChangeValues == {Float(-20 * Scale), Float(-2000), Float(0), NonNumeric}

\* changes handed to the engine: fractions, malformed
FractionValues == {Float(-2000), Float(0), Float(Scale), NonNumeric}

ChangeMaps(V) ==
    { f \in UNION {[K -> V] : K \in SUBSET Sectors} : Cardinality(DOMAIN f) <= MaxChanges }

\* raw changes handed to the normalizer alone: both sides of every threshold
NormalizerValues ==
    {Float(-150 * Scale), Float(-100 * Scale), Float(-20 * Scale), Float(-10100),
     Float(-Scale), Float(-2000), Float(0), Float(5000), Float(Scale), Float(20 * Scale),
     Float(100 * Scale), Float(150 * Scale), NonNumeric}

ChangeArgs(e) ==
    {Dict(f) : f \in ChangeMaps(CASE e = "run_simulation" -> RawChangeValues
                                   [] e = "apply_rules"    -> FractionValues
                                   [] OTHER                -> NormalizerValues)}
        \cup {NoneObj}

\* the graph of the documented scenario
ScenarioGraph ==
    [a \in {"transport", "industry"} |->
        IF a = "transport"
        THEN [b \in {"industry", "power"} |-> IF b = "industry" THEN C(-500) ELSE C(-200)]
        ELSE [b \in {"power"} |-> C(-800)]]

\* a self-reinforcing cycle: without damping each trip around it amplifies the delta
CycleGraph ==
    [a \in {"transport", "industry"} |->
        IF a = "transport"
        THEN [b \in {"industry"} |-> C(12500)]
        ELSE [b \in {"transport"} |-> C(12500)]]

\* a chain without a shortcut: power is two edges away from transport
ChainGraph ==
    [a \in {"transport", "industry"} |->
        IF a = "transport"
        THEN [b \in {"industry"} |-> C(-5000)]
        ELSE [b \in {"power"} |-> C(-5000)]]

\* a graph with a coefficient that is not a number
MalformedGraph ==
    [a \in {"transport"} |-> [b \in {"power"} |-> NonNumeric]]

GraphArgs ==
    {NoneObj, Dict(EmptyDict), Dict(ScenarioGraph), Dict(CycleGraph), Dict(ChainGraph),
     Dict(MalformedGraph)}

TolArgs == {DefaultTol, 400 * Scale * TolDen}

----------------------------------------------------------------------------
(* simulation.py *)

\* variant: threshold `abs(num) >= 1`
NormalizeValue_Ge(v) ==
    LET num == IF CanFloat(v) THEN ToFloat(v) ELSE 0
    IN  IF Abs(num) >= Scale THEN Div100(num) ELSE num

\* variant: the threshold test is missing, every value is divided by 100
NormalizeValue_Always(v) ==
    LET num == IF CanFloat(v) THEN ToFloat(v) ELSE 0
    IN  Div100(num)

\* _normalize_changes: the value stored for one raw value v
NormalizeValue(v) ==
    LET num == IF CanFloat(v) THEN ToFloat(v) ELSE 0
    IN  IF Abs(num) > Scale THEN Div100(num) ELSE num

\* variant: `except Exception: continue`, a value that does not convert loses its key
NormalizeChanges_SkipMalformed(o) ==
    LET c == OrEmpty(o).items
    IN  Dict([s \in {k \in DOMAIN c : CanFloat(c[k])} |-> Float(NormalizeValue(c[s]))])

\* _normalize_changes(changes): a new dict
NormalizeChanges(o) ==
    LET c == OrEmpty(o).items
    IN  Dict([s \in DOMAIN c |-> Float(NormalizeValue(c[s]))])

----------------------------------------------------------------------------
(* rules_engine.py: the pieces of apply_rules *)

\* variant: `if not rules_map`, which also replaces an empty graph
ResolveRules_Falsy(h, ref) ==
    IF h[ref].kind = "none" \/ DOMAIN h[ref].items = {} THEN "rules" ELSE ref

\* lines 56-57: the graph apply_rules works with
ResolveRules(h, ref) == IF h[ref].kind = "none" THEN "rules" ELSE ref

\* line 60: float(v) raises for some value of the map
CopyRaises(o) == \E s \in DOMAIN o.items : ~CanFloat(o.items[s])

\* variant: `updated = sector_data`, the working map is the caller's object
CopyAsFloats_Alias(h, src) == [ref |-> src, heap |-> h]

\* line 60: updated = {s: float(v) for s, v in sector_data.items()}, a new dict
CopyAsFloats(h, src) ==
    [ref  |-> "updated",
     heap |-> [h EXCEPT !["updated"] =
                  Dict([s \in DOMAIN h[src].items |-> Float(ToFloat(h[src].items[s]))])]]

\* variant: the inner loop over outs.keys() is missing, so edge targets are not added
AllSectors_NoTargets(upd, changes, graph) ==
    DOMAIN upd \cup DOMAIN changes \cup DOMAIN graph

\* lines 63-67: all_sectors
AllSectors(upd, changes, graph) ==
    DOMAIN upd \cup DOMAIN changes \cup DOMAIN graph
        \cup UNION {DOMAIN graph[a] : a \in DOMAIN graph}

\* variant: `updated[s] = 0.0`, which overwrites the sectors already present
WithDefaults_Overwrite(upd, universe) == [s \in universe |-> Float(0)]

\* lines 68-69: updated.setdefault(s, 0.0) for every sector of the universe
WithDefaults(upd, universe) ==
    [s \in universe |-> IF s \in DOMAIN upd THEN upd[s] ELSE Float(0)]

\* variant: the except branch sets p = 1.0
Pct_One(v) == IF CanFloat(v) THEN ToFloat(v) ELSE Scale

\* lines 75-78: p = float(pct), 0.0 when the conversion raises
Pct(v) == IF CanFloat(v) THEN ToFloat(v) ELSE 0

\* variant: `delta = base * (1 + p)`, the new value is taken for the delta
DirectDelta_NewValue(upd, changes, s) ==
    Mul(ToFloat(Get(upd, s, Float(0))), Scale + Pct(changes[s]))

\* variant: `direct_delta[s] = p`, the fraction is recorded instead of the delta
DirectDelta_Pct(upd, changes, s) == Pct(changes[s])

\* lines 79-81: the direct delta of sector s
DirectDelta(upd, changes, s) == Mul(ToFloat(Get(upd, s, Float(0))), Pct(changes[s]))

\* variant: `updated[s] = delta`, the base is dropped
ApplyDirect_Replace(upd, changes) ==
    [s \in DOMAIN upd \cup DOMAIN changes |->
        IF s \in DOMAIN changes THEN Float(DirectDelta(upd, changes, s)) ELSE upd[s]]

\* lines 74-82: the working map after the direct changes
ApplyDirect(upd, changes) ==
    [s \in DOMAIN upd \cup DOMAIN changes |->
        IF s \in DOMAIN changes
        THEN Float(ToFloat(Get(upd, s, Float(0))) + DirectDelta(upd, changes, s))
        ELSE upd[s]]

\* variant: range(max_iterations + 1)
RangeHasNext_Inclusive(i, n) == i <= n

\* line 91: range(max_iterations) yields another value
RangeHasNext(i, n) == i < n

\* line 98: the frontier entry is propagated
Propagates(change_amt, t) == ~AbsLt(change_amt, t)

\* variant: `rules_map.get(a, rules.get(a, {}))`, a source the graph does not
\* have falls back to the module-level graph
Outs_DefaultRules(graph, a) ==
    IF a \in DOMAIN graph THEN graph[a]
    ELSE IF a \in DOMAIN rules.items THEN rules.items[a] ELSE EmptyDict

\* line 100: outs = rules_map.get(a, {})
Outs(graph, a) == IF a \in DOMAIN graph THEN graph[a] ELSE EmptyDict

\* lines 97-101: the (source, target) pairs the round visits
VisitedEdges(graph, frontier, t) ==
    {<<a, b>> \in (DOMAIN frontier) \X (UNION {DOMAIN Outs(graph, x) : x \in DOMAIN frontier}) :
        Propagates(frontier[a], t) /\ b \in DOMAIN Outs(graph, a)}

\* variant: the damping factor is left out of the product
Effect_Undamped(change_amt, coeff, damping) == Mul(change_amt, ToFloat(coeff))

\* line 103: effect = change_amt * float(coeff) * damping_factor
Effect(change_amt, coeff, damping) == Mul(Mul(change_amt, ToFloat(coeff)), damping)

\* variant: `if abs(effect) <= tol: continue`
Applies_Strict(effect, t) == ~AbsLe(effect, t)

\* line 104: the effect is applied
Applies(effect, t) == ~AbsLt(effect, t)

\* F applied to the value of v, with v evaluated once
Bind(v, F(_)) == CHOOSE r \in {F(x) : x \in {v}} : TRUE

\* variant: `next_delta[b] = effect`, the last edge into b wins
EdgeStep_Overwrite(st, graph, frontier, damping, t, a, b) ==
    Bind(Effect(frontier[a], Outs(graph, a)[b], damping),
         LAMBDA effect :
            IF ~Applies(effect, t) THEN st
            ELSE [upd |-> [s \in DOMAIN st.upd \cup {b} |->
                              IF s = b THEN Float(ToFloat(Get(st.upd, b, Float(0))) + effect)
                              ELSE st.upd[s]],
                  nxt |-> [s \in DOMAIN st.nxt \cup {b} |->
                              IF s = b THEN effect ELSE st.nxt[s]],
                  max |-> Max(st.max, Abs(effect))])

\* lines 103-108: the loop body for one visited edge, on the round's state
EdgeStep(st, graph, frontier, damping, t, a, b) ==
    Bind(Effect(frontier[a], Outs(graph, a)[b], damping),
         LAMBDA effect :
            IF ~Applies(effect, t) THEN st
            ELSE [upd |-> [s \in DOMAIN st.upd \cup {b} |->
                              IF s = b THEN Float(ToFloat(Get(st.upd, b, Float(0))) + effect)
                              ELSE st.upd[s]],
                  nxt |-> [s \in DOMAIN st.nxt \cup {b} |->
                              IF s = b THEN Get(st.nxt, b, 0) + effect ELSE st.nxt[s]],
                  max |-> Max(st.max, Abs(effect))])

RECURSIVE RunEdges(_, _, _, _, _, _)
\* lines 97-108: the two nested loops over the visited edges
RunEdges(st, graph, frontier, damping, t, edges) ==
    IF edges = {} THEN st
    ELSE Bind([st |-> st, e |-> CHOOSE x \in edges : TRUE, edges |-> edges],
              LAMBDA v :
                 RunEdges(EdgeStep(v.st, graph, frontier, damping, t, v.e[1], v.e[2]),
                          graph, frontier, damping, t, v.edges \ {v.e}))

RECURSIVE RunEdgesSeq(_, _, _, _, _, _)
\* lines 97-108: the loop body run over the visited edges in the order given
RunEdgesSeq(st, graph, frontier, damping, t, order) ==
    IF order = <<>> THEN st
    ELSE RunEdgesSeq(EdgeStep(st, graph, frontier, damping, t, Head(order)[1], Head(order)[2]),
                     graph, frontier, damping, t, Tail(order))

\* the orders in which dict iteration can present a set of edges: equal dicts
\* may have been filled in different insertion orders
Orders(S) ==
    {o \in [1..Cardinality(S) -> S] : \A e \in S : \E i \in 1..Cardinality(S) : o[i] = e}

\* variant: next_delta is the same dict as the frontier being iterated, so the
\* entries a round adds are visited in that same round
Round_InPlace(upd, graph, frontier, damping, t) ==
    LET r1 == RunEdges([upd |-> upd, nxt |-> EmptyDict, max |-> 0],
                       graph, frontier, damping, t, VisitedEdges(graph, frontier, t))
    IN  RunEdges(r1, graph, r1.nxt, damping, t, VisitedEdges(graph, r1.nxt, t))

\* lines 94-108: one round, from next_delta = {} and max_change = 0.0
Round(upd, graph, frontier, damping, t) ==
    RunEdges([upd |-> upd, nxt |-> EmptyDict, max |-> 0],
             graph, frontier, damping, t, VisitedEdges(graph, frontier, t))

\* variant: `float(outs)`, the conversion is applied to the dict and always raises
RoundRaises_Always(graph, frontier, t) == VisitedEdges(graph, frontier, t) # {}

\* line 103: float(coeff) raises on an edge the round visits
RoundRaises(graph, frontier, t) ==
    \E e \in VisitedEdges(graph, frontier, t) : ~CanFloat(Outs(graph, e[1])[e[2]])

\* variant: `if max_change < tol: break`
Converged_Strict(mc, t) == AbsLt(mc, t)

\* line 111: the round converged
Converged(mc, t) == AbsLe(mc, t)

\* variant: line 114 is missing, every round uses 0.8
NextDamping_Constant(d) == d

\* line 114: damping_factor *= 0.9
NextDamping(d) == Mul(d, DampingDecay)

RECURSIVE Cascade(_, _, _, _, _, _, _)
\* lines 91-114: the rounds from number i on, as a function of the loop's state
Cascade(upd, frontier, damping, i, n, graph, t) ==
    IF ~RangeHasNext(i, n) \/ DOMAIN frontier = {} THEN upd
    ELSE Bind(Round(upd, graph, frontier, damping, t),
              LAMBDA st :
                 IF Converged(st.max, t) THEN st.upd
                 ELSE Cascade(st.upd, st.nxt, NextDamping(damping), i + 1, n, graph, t))

\* lines 41-116: what apply_rules returns for values it can convert and a graph
\* whose coefficients are numbers
Propagate(values, changes, graph, n, t) ==
    LET base == [s \in DOMAIN values |-> Float(ToFloat(values[s]))]
        upd0 == WithDefaults(base, AllSectors(base, changes, graph))
        dd   == [s \in DOMAIN changes |-> DirectDelta(upd0, changes, s)]
    IN  Cascade(ApplyDirect(upd0, changes), dd, DampingInit, 0, n, graph, t)

----------------------------------------------------------------------------
(* The state before the call: the caller has built its arguments *)

Init ==
    /\ entry \in {"run_simulation", "apply_rules", "_normalize_changes"}
    /\ \E d \in IF entry = "_normalize_changes" THEN {Unallocated} ELSE DataArgs,
          c \in ChangeArgs(entry),
          g \in IF entry = "_normalize_changes" THEN {Unallocated} ELSE GraphArgs :
          heap = [o \in ObjIds |->
                    CASE o = "arg_data"    -> d
                      [] o = "arg_changes" -> c
                      [] o = "arg_rules"   -> g
                      [] o = "rules"       -> rules
                      [] OTHER             -> Unallocated]
    /\ max_iterations \in IF entry = "apply_rules" THEN 0..MaxIterBound
                          ELSE {DefaultMaxIterations}
    /\ tol \in IF entry = "apply_rules" THEN TolArgs ELSE {DefaultTol}
    /\ sector_changes = IF entry = "apply_rules" THEN "arg_changes" ELSE "unbound"
    /\ rules_map = "arg_rules"
    /\ updated = "unbound"
    /\ direct_delta = EmptyDict
    /\ current_delta = EmptyDict
    /\ next_delta = EmptyDict
    /\ max_change = 0
    /\ damping_factor = 0
    /\ iteration = 0
    /\ rounds = 0
    /\ cascaded = EmptyDict
    /\ result = "unbound"
    /\ error = "none"
    /\ pc = CASE entry = "run_simulation" -> "rs_check"
              [] entry = "apply_rules"    -> "ar_rules"
              [] OTHER                    -> "nc_call"

\* an exception leaves the function: nothing but error and pc changes
Raise(e) ==
    /\ error' = e
    /\ pc' = "raised"
    /\ UNCHANGED <<entry, heap, sector_changes, rules_map, max_iterations, tol, updated,
                   direct_delta, current_delta, next_delta, max_change, damping_factor,
                   iteration, rounds, cascaded, result>>

----------------------------------------------------------------------------
(* _normalize_changes called on its own *)

\* simulation.py lines 21-31
NC_Normalize ==
    /\ pc = "nc_call"
    /\ heap' = [heap EXCEPT !["normalized"] = NormalizeChanges(heap["arg_changes"])]
    /\ result' = "normalized"
    /\ pc' = "done"
    /\ UNCHANGED <<entry, sector_changes, rules_map, max_iterations, tol, updated,
                   direct_delta, current_delta, next_delta, max_change, damping_factor,
                   iteration, rounds, cascaded, error>>

----------------------------------------------------------------------------
(* run_simulation *)

\* simulation.py lines 46-47
RS_Check ==
    /\ pc = "rs_check"
    /\ IF IsDict(heap["arg_data"])
       THEN /\ pc' = "rs_normalize"
            /\ UNCHANGED <<entry, heap, sector_changes, rules_map, max_iterations, tol,
                           updated, direct_delta, current_delta, next_delta, max_change,
                           damping_factor, iteration, rounds, cascaded, result, error>>
       ELSE Raise("ValueError")

\* simulation.py line 49
RS_Normalize ==
    /\ pc = "rs_normalize"
    /\ heap' = [heap EXCEPT !["normalized"] = NormalizeChanges(OrEmpty(heap["arg_changes"]))]
    /\ pc' = "rs_call"
    /\ UNCHANGED <<entry, sector_changes, rules_map, max_iterations, tol, updated,
                   direct_delta, current_delta, next_delta, max_change, damping_factor,
                   iteration, rounds, cascaded, result, error>>

\* variant: the raw sector_changes is handed to apply_rules
CallChanges_Raw == "arg_changes"

\* simulation.py line 52: the second argument of the call is normalized_changes
CallChanges == "normalized"

\* simulation.py line 52: apply_rules(sector_data, normalized_changes, rules_map=rules_map)
RS_Call ==
    /\ pc = "rs_call"
    /\ sector_changes' = CallChanges
    /\ pc' = "ar_rules"
    /\ UNCHANGED <<entry, heap, rules_map, max_iterations, tol, updated,
                   direct_delta, current_delta, next_delta, max_change, damping_factor,
                   iteration, rounds, cascaded, result, error>>

----------------------------------------------------------------------------
(* apply_rules *)

\* rules_engine.py lines 56-57
AR_Rules ==
    /\ pc = "ar_rules"
    /\ rules_map' = ResolveRules(heap, rules_map)
    /\ pc' = "ar_copy"
    /\ UNCHANGED <<entry, heap, sector_changes, max_iterations, tol, updated,
                   direct_delta, current_delta, next_delta, max_change, damping_factor,
                   iteration, rounds, cascaded, result, error>>

\* rules_engine.py line 60
AR_Copy ==
    /\ pc = "ar_copy"
    /\ IF ~HasItems(heap["arg_data"]) THEN Raise("AttributeError")
       ELSE IF CopyRaises(heap["arg_data"]) THEN Raise("ValueError")
       ELSE LET r == CopyAsFloats(heap, "arg_data")
            IN  /\ heap' = r.heap
                /\ updated' = r.ref
                /\ pc' = "ar_universe"
                /\ UNCHANGED <<entry, sector_changes, rules_map, max_iterations, tol,
                               direct_delta, current_delta, next_delta, max_change,
                               damping_factor, iteration, rounds, cascaded, result, error>>

\* rules_engine.py lines 63-69
AR_Universe ==
    /\ pc = "ar_universe"
    /\ IF ~HasItems(heap[sector_changes]) THEN Raise("AttributeError")
       ELSE /\ heap' = [heap EXCEPT ![updated].items =
                          WithDefaults(@, AllSectors(@, heap[sector_changes].items,
                                                     heap[rules_map].items))]
            /\ pc' = "ar_direct"
            /\ UNCHANGED <<entry, sector_changes, rules_map, max_iterations, tol, updated,
                           direct_delta, current_delta, next_delta, max_change,
                           damping_factor, iteration, rounds, cascaded, result, error>>

\* rules_engine.py lines 73-89
AR_Direct ==
    /\ pc = "ar_direct"
    /\ LET upd     == heap[updated].items
           changes == heap[sector_changes].items
           dd      == [s \in DOMAIN changes |-> DirectDelta(upd, changes, s)]
       IN  /\ direct_delta' = dd
           /\ heap' = [heap EXCEPT ![updated].items = ApplyDirect(upd, changes)]
           /\ current_delta' = dd
    /\ damping_factor' = DampingInit
    /\ pc' = "ar_loop"
    /\ UNCHANGED <<entry, sector_changes, rules_map, max_iterations, tol, updated,
                   next_delta, max_change, iteration, rounds, cascaded, result, error>>

\* rules_engine.py line 91: range(max_iterations) is exhausted
AR_LoopExit ==
    /\ pc = "ar_loop"
    /\ ~RangeHasNext(iteration, max_iterations)
    /\ pc' = "ar_return"
    /\ UNCHANGED <<entry, heap, sector_changes, rules_map, max_iterations, tol, updated,
                   direct_delta, current_delta, next_delta, max_change, damping_factor,
                   iteration, rounds, cascaded, result, error>>

\* rules_engine.py lines 91-93: the frontier is empty
AR_EmptyFrontier ==
    /\ pc = "ar_loop"
    /\ RangeHasNext(iteration, max_iterations)
    /\ DOMAIN current_delta = {}
    /\ iteration' = iteration + 1
    /\ pc' = "ar_return"
    /\ UNCHANGED <<entry, heap, sector_changes, rules_map, max_iterations, tol, updated,
                   direct_delta, current_delta, next_delta, max_change, damping_factor,
                   rounds, cascaded, result, error>>

\* rules_engine.py lines 91-114: one cascade round
AR_Round ==
    /\ pc = "ar_loop"
    /\ RangeHasNext(iteration, max_iterations)
    /\ DOMAIN current_delta # {}
    /\ LET graph == heap[rules_map].items
       IN  IF RoundRaises(graph, current_delta, tol) THEN Raise("ValueError")
           ELSE \E st \in {Round(heap[updated].items, graph, current_delta, damping_factor, tol)} :
                    /\ heap' = [heap EXCEPT ![updated].items = st.upd]
                    /\ next_delta' = st.nxt
                    /\ max_change' = st.max
                    /\ iteration' = iteration + 1
                    /\ rounds' = rounds + 1
                    /\ cascaded' = [s \in DOMAIN cascaded \cup DOMAIN st.nxt |->
                                       Get(cascaded, s, 0) + Get(st.nxt, s, 0)]
                    /\ IF Converged(st.max, tol)
                       THEN /\ pc' = "ar_return"
                            /\ UNCHANGED <<current_delta, damping_factor>>
                       ELSE /\ current_delta' = st.nxt
                            /\ damping_factor' = NextDamping(damping_factor)
                            /\ pc' = "ar_loop"
                    /\ UNCHANGED <<entry, sector_changes, rules_map, max_iterations, tol,
                                   updated, direct_delta, result, error>>

\* rules_engine.py line 116 (and simulation.py line 53, which hands the same object on)
AR_Return ==
    /\ pc = "ar_return"
    /\ result' = updated
    /\ pc' = "done"
    /\ UNCHANGED <<entry, heap, sector_changes, rules_map, max_iterations, tol, updated,
                   direct_delta, current_delta, next_delta, max_change, damping_factor,
                   iteration, rounds, cascaded, error>>

Next ==
    \/ NC_Normalize
    \/ RS_Check
    \/ RS_Normalize
    \/ RS_Call
    \/ AR_Rules
    \/ AR_Copy
    \/ AR_Universe
    \/ AR_Direct
    \/ AR_LoopExit
    \/ AR_EmptyFrontier
    \/ AR_Round
    \/ AR_Return

Spec == Init /\ [][Next]_vars

\* the values arguments of the calls whose termination is examined: the full
\* map, a partial map, a map with a malformed value, and a str
LiveDataArgs ==
    {Dict([s \in Sectors |-> Float(BaseValue(s))]),
     Dict([s \in {"transport"} |-> Float(BaseValue(s))]),
     Dict([s \in {"transport", "industry"} |->
              IF s = "transport" THEN NonNumeric ELSE Float(BaseValue(s))]),
     StrObj}

LiveInit ==
    /\ Init
    /\ entry = "_normalize_changes" \/ heap["arg_data"] \in LiveDataArgs

\* the interpreter always executes the next statement of a running call
FairSpec == LiveInit /\ [][Next]_vars /\ WF_vars(Next)

----------------------------------------------------------------------------
(* What the claims speak about *)

\* the change map apply_rules received
Changes == heap[sector_changes].items

\* the caller's value of sector s as a float, 0.0 when the caller's map has no such key
Baseline(s) ==
    LET d == heap["arg_data"].items
    IN  IF s \in DOMAIN d /\ CanFloat(d[s]) THEN ToFloat(d[s]) ELSE 0

\* the value of sector s after the direct step alone
DirectOnly(s) ==
    IF s \in DOMAIN Changes
    THEN Baseline(s) + Mul(Baseline(s), Pct(Changes[s]))
    ELSE Baseline(s)

InEngine == pc \in {"ar_universe", "ar_direct", "ar_loop", "ar_return", "done"} /\ updated # "unbound"

----------------------------------------------------------------------------
\* C1: no step of a call changes an object the caller (or the module) owns:
\* the caller's values map, change map, graph override and the module-level
\* default graph keep their keys and values, and the map handed back is none
\* of these objects.
NonMutation ==
    [][/\ \A o \in CallerObjs : heap'[o] = heap[o]
       /\ result' # "unbound" => result' \notin CallerObjs]_vars

\* a call through the default graph has returned a map that differs from the caller's
NonMutation_Witness ==
    /\ pc = "done"
    /\ entry = "apply_rules"
    /\ rules_map = "rules"
    /\ rounds >= 1
    /\ max_change > 0
    /\ \E s \in DOMAIN heap["arg_data"].items :
          heap[result].items[s] # heap["arg_data"].items[s]
    /\ DOMAIN heap[result].items # DOMAIN heap["arg_data"].items

\* C2: with an empty change map the frontier is empty, no cascade round runs
\* and every key of the caller's values map keeps its value in the result.
NoOpChanges ==
    (entry # "_normalize_changes" /\ sector_changes # "unbound"
        /\ HasItems(heap[sector_changes]) /\ DOMAIN Changes = {})
    => /\ rounds = 0
       /\ DOMAIN current_delta = {}
       /\ DOMAIN next_delta = {}
       /\ InEngine =>
            \A s \in DOMAIN heap["arg_data"].items :
                /\ s \in DOMAIN heap[updated].items
                /\ heap[updated].items[s] = Float(Baseline(s))
       /\ pc = "done" => result = updated

\* propagate(values, {}, graph) has returned for non-zero values and a graph with edges
NoOpChanges_Witness ==
    /\ pc = "done"
    /\ entry = "apply_rules"
    /\ DOMAIN Changes = {}
    /\ DOMAIN heap[rules_map].items # {}
    /\ \E s \in DOMAIN heap["arg_data"].items : Baseline(s) # 0

\* C3: an empty graph {} is used as given; then no effect is ever applied and
\* the result is the direct step alone: values[s] + values[s]*p for a sector
\* with a change entry, the baseline for every other sector.
EmptyGraphDirectOnly ==
    (entry # "_normalize_changes" /\ IsDict(heap["arg_rules"])
        /\ DOMAIN heap["arg_rules"].items = {})
    => /\ rules_map = "arg_rules"
       /\ DOMAIN next_delta = {}
       /\ max_change = 0
       /\ pc = "done" =>
            /\ DOMAIN heap[result].items = DOMAIN heap["arg_data"].items \cup DOMAIN Changes
            /\ \A s \in DOMAIN heap[result].items : heap[result].items[s] = Float(DirectOnly(s))

\* a call with graph {} has run a round on a non-zero delta of a sector that
\* has outgoing edges in the default graph
EmptyGraphDirectOnly_Witness ==
    /\ pc = "done"
    /\ IsDict(heap["arg_rules"])
    /\ DOMAIN heap["arg_rules"].items = {}
    /\ rounds >= 1
    /\ "transport" \in DOMAIN direct_delta
    /\ direct_delta["transport"] # 0
    /\ "industry" \in DOMAIN heap[result].items

\* C4: at most max_iterations cascade rounds are executed; with
\* max_iterations = 0 no round runs and the result is the direct step alone.
BoundedIteration ==
    /\ rounds <= max_iterations
    /\ iteration <= max_iterations
    /\ max_iterations = 0 =>
          /\ rounds = 0
          /\ DOMAIN next_delta = {}
          /\ pc = "done" /\ entry = "apply_rules" =>
                \A s \in DOMAIN heap[result].items : heap[result].items[s] = Float(DirectOnly(s))

\* the cap stopped a cascade on a self-reinforcing cycle that had not converged
BoundedIteration_Witness ==
    /\ pc = "done"
    /\ entry = "apply_rules"
    /\ heap[rules_map] = Dict(CycleGraph)
    /\ max_iterations >= 1
    /\ rounds = max_iterations
    /\ ~Converged(max_change, tol)

----------------------------------------------------------------------------
(* Well-typed arguments *)

\* the values argument is a mapping of numbers
DataWellTyped ==
    /\ IsDict(heap["arg_data"])
    /\ \A s \in DOMAIN heap["arg_data"].items : CanFloat(heap["arg_data"].items[s])

\* the change argument is a mapping (the facade also accepts None)
ChangesIsMapping ==
    \/ IsDict(heap["arg_changes"])
    \/ entry = "run_simulation" /\ heap["arg_changes"].kind = "none"

\* the change argument is a mapping of numbers
ChangesWellTyped ==
    /\ ChangesIsMapping
    /\ \A s \in DOMAIN heap["arg_changes"].items : CanFloat(heap["arg_changes"].items[s])

\* the graph argument is None or a mapping of mappings of numbers
GraphWellTyped ==
    LET g == heap["arg_rules"].items
    IN  \A a \in DOMAIN g : \A b \in DOMAIN g[a] : CanFloat(g[a][b])

WellTyped ==
    /\ entry \in {"run_simulation", "apply_rules"}
    /\ DataWellTyped
    /\ ChangesWellTyped
    /\ GraphWellTyped

\* the sectors whose entry in the caller's change map is not a number
Malformed ==
    {s \in DOMAIN heap["arg_changes"].items : ~CanFloat(heap["arg_changes"].items[s])}

----------------------------------------------------------------------------
\* C5: on well-typed input a call never raises and always reaches its return;
\* when range(max_iterations) is exhausted while the last round had not
\* converged, the call goes on to return the working map as that round left it.
Termination ==
    /\ [](WellTyped => error = "none" /\ pc # "raised")
    /\ WellTyped ~> (pc = "done" /\ result = updated /\ IsDict(heap[result]))
    /\ [][(pc = "ar_loop" /\ ~RangeHasNext(iteration, max_iterations))
            => (pc' = "ar_return" /\ heap' = heap /\ updated' = updated /\ error' = "none")]_vars

\* the facade returned after all ten rounds with a frontier still above tolerance
Termination_Witness ==
    /\ pc = "done"
    /\ WellTyped
    /\ entry = "run_simulation"
    /\ rounds = DefaultMaxIterations
    /\ ~Converged(max_change, tol)
    /\ \E s \in DOMAIN current_delta : ~AbsLt(current_delta[s], tol)

\* C6: the normalizer stores v/100 when |v| > 1 and v itself when |v| <= 1;
\* 1 and -1 stay 1 and -1, magnitudes above 100 are divided by 100 too, and
\* -20 and -0.20 both normalize to -0.20.
NormalizerRule ==
    (heap["normalized"].kind = "dict" /\ IsDict(heap["arg_changes"]))
    => LET raw == heap["arg_changes"].items
           out == heap["normalized"].items
       IN  \A k \in DOMAIN raw :
              CanFloat(raw[k]) =>
                 /\ k \in DOMAIN out
                 /\ CanFloat(out[k])
                 /\ raw[k].v > Scale \/ raw[k].v < -Scale => out[k].v * 100 = raw[k].v
                 /\ (raw[k].v <= Scale /\ raw[k].v >= -Scale) => out[k].v = raw[k].v
                 /\ raw[k].v = Scale => out[k].v = Scale
                 /\ raw[k].v = -Scale => out[k].v = -Scale
                 /\ raw[k].v \in {-20 * Scale, -2000} => out[k].v = -2000

\* the normalizer has returned for a map holding exactly 1 and a percent above 100
NormalizerRule_Witness ==
    /\ pc = "done"
    /\ entry = "_normalize_changes"
    /\ IsDict(heap["arg_changes"])
    /\ \E k1, k2 \in DOMAIN heap["arg_changes"].items :
          /\ heap["arg_changes"].items[k1] = Float(Scale)
          /\ heap["arg_changes"].items[k2] = Float(150 * Scale)
          /\ heap[result].items[k1] = Float(Scale)
          /\ heap[result].items[k2] = Float(15000)

\* C7: a non-numeric entry of the change map raises nowhere and counts as a
\* change of 0.0: its direct delta is 0, the direct step leaves the sector at
\* its baseline, it alone causes no effect, and the numeric entries of the
\* same map get their own direct delta.
MalformedChangesNeutral ==
    (entry \in {"run_simulation", "apply_rules"} /\ IsDict(heap["arg_changes"])
        /\ Malformed # {} /\ DataWellTyped /\ GraphWellTyped)
    => /\ error = "none"
       /\ heap["normalized"].kind = "dict" =>
             \A s \in Malformed : heap["normalized"].items[s] = Float(0)
       /\ pc \in {"ar_loop", "ar_return", "done"} =>
             /\ \A s \in Malformed : direct_delta[s] = 0
             /\ \A s \in DOMAIN Changes \ Malformed :
                   direct_delta[s] = Mul(Baseline(s), ToFloat(Changes[s]))
             /\ rounds = 0 =>
                   \A s \in DOMAIN Changes :
                       heap[updated].items[s] = Float(Baseline(s) + direct_delta[s])
             /\ rounds = 0 =>
                   \A s \in Malformed : heap[updated].items[s] = Float(Baseline(s))
             /\ (\A s \in DOMAIN Changes \ Malformed : direct_delta[s] = 0) =>
                   DOMAIN next_delta = {} /\ max_change = 0

\* the engine has returned for a map with a malformed entry on a sector that has
\* a value and outgoing edges, next to a numeric entry that did cascade
MalformedChangesNeutral_Witness ==
    /\ pc = "done"
    /\ entry = "apply_rules"
    /\ DataWellTyped
    /\ "transport" \in Malformed
    /\ Baseline("transport") # 0
    /\ "industry" \in DOMAIN direct_delta
    /\ direct_delta["industry"] # 0
    /\ max_change > 0
    /\ heap[result].items["transport"] = Float(Baseline("transport"))

\* C8: a non-numeric sector value is coerced to 0.0 and never raises: a call
\* whose values argument is a mapping, with a well-typed change map and graph,
\* raises nothing.
MalformedValuesNeutral ==
    (entry \in {"run_simulation", "apply_rules"} /\ IsDict(heap["arg_data"])
        /\ ChangesIsMapping /\ GraphWellTyped)
    => error = "none"

\* C9: the facade called with a values argument that is not a mapping raises
\* ValueError at its first statement: nothing is normalized and the engine is
\* not entered.
FacadeRejectsFirst ==
    (entry = "run_simulation" /\ heap["arg_data"].kind # "dict")
    => /\ pc \in {"rs_check", "raised"}
       /\ pc = "raised" => error = "ValueError"
       /\ heap["normalized"] = Unallocated
       /\ heap["updated"] = Unallocated
       /\ sector_changes = "unbound"
       /\ updated = "unbound"
       /\ rules_map = "arg_rules"

\* the facade has raised for a str, with a change map that had percents to normalize
FacadeRejectsFirst_Witness ==
    /\ entry = "run_simulation"
    /\ pc = "raised"
    /\ error = "ValueError"
    /\ heap["arg_data"] = StrObj
    /\ IsDict(heap["arg_changes"])
    /\ \E s \in DOMAIN heap["arg_changes"].items :
          heap["arg_changes"].items[s] = Float(-20 * Scale)
    /\ heap["arg_rules"] = Dict(ScenarioGraph)

\* C10: the engine called directly with a values argument that is not a
\* mapping raises, before it builds anything, the error kind the facade
\* raises (ValueError).
EngineRejectsInvalidValues ==
    (entry = "apply_rules" /\ heap["arg_data"].kind # "dict")
    => /\ pc \in {"ar_rules", "ar_copy", "raised"}
       /\ updated = "unbound"
       /\ heap["updated"] = Unallocated
       /\ pc = "raised" => error = "ValueError"


----------------------------------------------------------------------------
\* the graph apply_rules works with, once line 56-57 has resolved it
Graph == heap[rules_map].items

\* the keys of the caller's values map
ValueKeys == DOMAIN heap["arg_data"].items

\* the sectors that are the source or the target of some edge of the graph
GraphSources == DOMAIN Graph
GraphTargets == {b \in {"transport", "industry", "power", "residential"} :
                    \E a \in DOMAIN Graph : b \in DOMAIN Graph[a]}

\* C11: once the universe is built, the working map (and so the result) has
\* exactly the keys of values, of changes, the sources and the targets of the
\* graph; a sector the values map does not have starts at 0.0.
OutputCoversUniverse ==
    (pc \in {"ar_direct", "ar_loop", "ar_return", "done"} /\ updated # "unbound")
    => /\ DOMAIN heap[updated].items
            = ValueKeys \cup DOMAIN Changes \cup GraphSources \cup GraphTargets
       /\ pc = "ar_direct"
            => \A s \in DOMAIN heap[updated].items \ ValueKeys :
                   heap[updated].items[s] = Float(0)
       /\ pc = "done" => result = updated

\* a call has returned a map in which power is there only as the target of an
\* edge and residential only because the default graph names it
OutputCoversUniverse_Witness ==
    /\ pc = "done"
    /\ heap["arg_rules"] = NoneObj
    /\ "power" \notin ValueKeys \cup DOMAIN Changes
    /\ "transport" \in ValueKeys
    /\ {"power", "residential"} \subseteq DOMAIN heap[result].items
    /\ heap[result].items["residential"] = Float(0)


----------------------------------------------------------------------------
\* the graph a call with this rules_map argument works with
ArgGraph == IF heap["arg_rules"].kind = "none" THEN rules.items ELSE heap["arg_rules"].items

\* C12: run_simulation(values, raw, graph) is apply_rules(values,
\* _normalize_changes(raw), graph) with max_iterations 10, tol 1e-6 and the
\* default graph when rules_map is None; None as the change map is the empty map.
FacadeIsComposition ==
    entry = "run_simulation"
    => /\ max_iterations = DefaultMaxIterations
       /\ tol = DefaultTol
       /\ sector_changes # "unbound"
            => heap[sector_changes] = NormalizeChanges(OrEmpty(heap["arg_changes"]))
       /\ (sector_changes # "unbound" /\ heap["arg_changes"].kind = "none")
            => heap[sector_changes] = Dict(EmptyDict)
       /\ pc \in {"ar_copy", "ar_universe", "ar_direct", "ar_loop", "ar_return", "done"}
            => Graph = ArgGraph
       /\ pc = "done"
            => heap[result].items =
                  Propagate(heap["arg_data"].items,
                            NormalizeChanges(OrEmpty(heap["arg_changes"])).items,
                            ArgGraph, DefaultMaxIterations, DefaultTol)

\* the facade has returned for a -20 percent cut of transport under the default
\* graph, after a cascade of at least two rounds
FacadeIsComposition_Witness ==
    /\ entry = "run_simulation"
    /\ pc = "done"
    /\ heap["arg_rules"] = NoneObj
    /\ "transport" \in DOMAIN heap["arg_changes"].items
    /\ heap["arg_changes"].items["transport"] = Float(-20 * Scale)
    /\ Changes["transport"] = Float(-2000)
    /\ rounds >= 2


----------------------------------------------------------------------------
\* the working map's value of sector s, in units of 1/Scale
Value(s) == ToFloat(heap[updated].items[s])

\* the documented scenario: baseline 1000/2000/3000, the scenario's graph, a
\* 20 percent cut of transport, the default tolerance
IsScenario ==
    /\ InEngine
    /\ heap["arg_data"] = Dict([s \in Sectors |-> Float(BaseValue(s))])
    /\ Graph = ScenarioGraph
    /\ Changes = [s \in {"transport"} |-> Float(-2000)]
    /\ tol = DefaultTol

\* C13: in the documented scenario the direct step leaves transport at 800;
\* round 1 adds +8 to industry and +3.2 to power, round 2 adds -0.4608 to
\* power, no later round changes a value, and with at least two rounds allowed
\* the call ends with transport 800, industry 2008, power 3002.7392.
ScenarioValues ==
    IsScenario
    => /\ (pc \in {"ar_loop", "ar_return", "done"} /\ rounds = 0 /\ max_iterations > 0)
            => /\ heap[updated].items =
                     [s \in Sectors |-> Float(CASE s = "transport" -> 8000000
                                              [] s = "industry"  -> 20000000
                                              [] OTHER           -> 30000000)]
               /\ pc = "ar_loop" => damping_factor = 8000
       /\ rounds = 1
            => /\ next_delta = [s \in {"industry", "power"} |->
                                  IF s = "industry" THEN 80000 ELSE 32000]
               /\ Value("transport") = 8000000
               /\ Value("industry") = 20080000
               /\ Value("power") = 30032000
               /\ pc = "ar_loop" => damping_factor = 7200
       /\ rounds = 2 => next_delta = [s \in {"power"} |-> -4608]
       /\ rounds >= 3 => /\ next_delta = EmptyDict
                         /\ max_change = 0
                         /\ pc # "ar_loop"
       /\ rounds >= 2
            => /\ Value("transport") = 8000000
               /\ Value("industry") = 20080000
               /\ Value("power") = 30027392
       /\ (pc = "done" /\ max_iterations >= 2)
            => heap[result].items =
                  [s \in Sectors |-> Float(CASE s = "transport" -> 8000000
                                           [] s = "industry"  -> 20080000
                                           [] OTHER           -> 30027392)]

\* the facade has returned for the scenario after its third, empty round
ScenarioValues_Witness ==
    /\ IsScenario
    /\ entry = "run_simulation"
    /\ pc = "done"
    /\ rounds = 3
    /\ Value("power") = 30027392


----------------------------------------------------------------------------
\* C14: the result is a function of the inputs alone, and a round gives the
\* same values, next frontier and largest effect in whatever order the
\* frontier entries and the edges are visited (sums are exact in the model).
OrderIndependent ==
    /\ (pc = "ar_loop" /\ DOMAIN current_delta # {} /\ ~RoundRaises(Graph, current_delta, tol))
         => \A o \in Orders(VisitedEdges(Graph, current_delta, tol)) :
               RunEdgesSeq([upd |-> heap[updated].items, nxt |-> EmptyDict, max |-> 0],
                           Graph, current_delta, damping_factor, tol, o)
                 = Round(heap[updated].items, Graph, current_delta, damping_factor, tol)
    /\ (pc = "done" /\ entry # "_normalize_changes")
         => heap[result].items =
               Propagate(heap["arg_data"].items, Changes, Graph, max_iterations, tol)

\* a round is about to visit two edges into power, from two frontier entries
OrderIndependent_Witness ==
    /\ pc = "ar_loop"
    /\ max_iterations > iteration
    /\ {<<"transport", "power">>, <<"industry", "power">>}
          \subseteq VisitedEdges(Graph, current_delta, tol)
    /\ Applies(Effect(current_delta["transport"], Graph["transport"]["power"], damping_factor), tol)
    /\ Applies(Effect(current_delta["industry"], Graph["industry"]["power"], damping_factor), tol)


----------------------------------------------------------------------------
\* the normalizer has run, as a call of its own or as line 49 of the facade
Normalized == heap["normalized"].kind # "unallocated"

\* C15: the normalizer's output has exactly the keys of its input, the keys
\* whose value is not a number or is zero included; the output is a new map
\* and the input map is never modified.
NormalizerKeepsKeys ==
    /\ [](Normalized
            => /\ heap["normalized"].kind = "dict"
               /\ DOMAIN heap["normalized"].items = DOMAIN heap["arg_changes"].items
               /\ \A s \in DOMAIN heap["arg_changes"].items :
                      heap["normalized"].items[s].t = "float")
    /\ [][heap'["arg_changes"] = heap["arg_changes"]]_vars

\* the normalizer has returned for a map with a value that is not a number and
\* a value that is zero
NormalizerKeepsKeys_Witness ==
    /\ entry = "_normalize_changes"
    /\ pc = "done"
    /\ result = "normalized"
    /\ \E a, b \in DOMAIN heap["arg_changes"].items :
          /\ heap["arg_changes"].items[a] = NonNumeric
          /\ heap["arg_changes"].items[b] = Float(0)
          /\ {a, b} \subseteq DOMAIN heap[result].items


----------------------------------------------------------------------------
(* The round about to run, read off the loop's variables *)

\* the tolerance in units of 1/Scale, rounded up
TolUnits == (tol + TolDen - 1) \div TolDen

\* abs(x) < tol is false
AtLeastTol(x) == Abs(x) >= TolUnits

\* the edges that leave a frontier entry
RoundEdges ==
    {e \in (DOMAIN current_delta) \X {"transport", "industry", "power", "residential"} :
        e[1] \in DOMAIN Graph /\ e[2] \in DOMAIN Graph[e[1]]}

\* line 103 for the edge a -> b, with the current damping factor
EdgeEffect(a, b) == Mul(Mul(current_delta[a], ToFloat(Graph[a][b])), damping_factor)

\* the edges that pass both filters (lines 98-99 and 104-105)
AppliedEdges ==
    {e \in RoundEdges :
        AtLeastTol(current_delta[e[1]]) /\ AtLeastTol(EdgeEffect(e[1], e[2]))}

RECURSIVE SumEffects(_, _)
\* the sum of the effects on b of the edges from the sources srcs
SumEffects(b, srcs) ==
    IF srcs = {} THEN 0
    ELSE LET a == CHOOSE x \in srcs : TRUE
         IN  EdgeEffect(a, b) + SumEffects(b, srcs \ {a})

\* what the round adds to b
EffectsInto(b) == SumEffects(b, {a \in DOMAIN current_delta : <<a, b>> \in AppliedEdges})

\* the sectors the round has an effect on
RoundTargets == {e[2] : e \in AppliedEdges}

\* the step is a cascade round that completes
IsRound == rounds' = rounds + 1

\* 0.8 * 0.9^(k-1) for k = 1..11, rounded to 1/Scale
ExactDamping == <<8000, 7200, 6480, 5832, 5249, 4724, 4252, 3826, 3444, 3099, 2789>>

\* C16: the damping factor of round k is 0.8 * 0.9^(k-1) (0.8, 0.72, ...; to
\* within one unit of 1/Scale, the repeated product being rounded), every
\* effect of a round is computed with that one factor, and the factor changes
\* only between rounds.
DampingSchedule ==
    /\ [](pc = "ar_loop"
            => /\ Abs(damping_factor - ExactDamping[rounds + 1]) <= 1
               /\ rounds < 7 => damping_factor = ExactDamping[rounds + 1])
    /\ [][IsRound
            => /\ next_delta' = [b \in RoundTargets |-> EffectsInto(b)]
               /\ damping_factor' =
                     IF pc' = "ar_loop" THEN Mul(damping_factor, 9000) ELSE damping_factor]_vars
    /\ [][(~IsRound /\ pc # "ar_direct") => damping_factor' = damping_factor]_vars

\* the fourth round is about to run with 0.8 * 0.9^3, after a round that had
\* an effect
DampingSchedule_Witness ==
    /\ pc = "ar_loop"
    /\ rounds = 3
    /\ iteration < max_iterations
    /\ damping_factor = 5832
    /\ DOMAIN current_delta # {}
    /\ max_change > 0


----------------------------------------------------------------------------
\* the direct step is done and the loop is running or over
AfterDirect == pc \in {"ar_loop", "ar_return", "done"}

\* C17: the direct step adds values[s]*p to each sector s of changes exactly
\* once; the first frontier is exactly s -> values[s]*p over the sectors of
\* changes; afterwards a value changes only by the sum of a round's effects,
\* so p is never applied again, not even to a sector on a cycle.
DirectAppliedOnce ==
    /\ []((pc = "ar_loop" /\ rounds = 0)
            => /\ DOMAIN current_delta = DOMAIN Changes
               /\ direct_delta = current_delta
               /\ \A s \in DOMAIN Changes :
                      /\ current_delta[s] = Mul(Baseline(s), Pct(Changes[s]))
                      /\ Value(s) = Baseline(s) + Mul(Baseline(s), Pct(Changes[s]))
               /\ \A s \in DOMAIN heap[updated].items \ DOMAIN Changes :
                      Value(s) = Baseline(s))
    /\ [][(AfterDirect /\ IsRound)
            => \A s \in DOMAIN heap[updated].items :
                  ToFloat(heap'[updated].items[s]) - Value(s)
                     = IF s \in RoundTargets THEN EffectsInto(s) ELSE 0]_vars
    /\ [][(AfterDirect /\ ~IsRound)
            => /\ heap'[updated] = heap[updated]
               /\ direct_delta' = direct_delta]_vars
    /\ [][AfterDirect => direct_delta' = direct_delta]_vars

\* a call has returned after a cascade around the cycle came back to the
\* changed sector transport
DirectAppliedOnce_Witness ==
    /\ pc = "done"
    /\ Graph = CycleGraph
    /\ DOMAIN Changes = {"transport"}
    /\ Pct(Changes["transport"]) # 0
    /\ rounds >= 2
    /\ Value("transport") # DirectOnly("transport")
    /\ direct_delta["transport"] = Mul(Baseline("transport"), Pct(Changes["transport"]))


----------------------------------------------------------------------------
\* the sectors the graph has an edge to from a sector of S
Successors(S) ==
    {b \in {"transport", "industry", "power", "residential"} :
        \E a \in S : a \in DOMAIN Graph /\ b \in DOMAIN Graph[a]}

RECURSIVE ReachFrom(_)
\* the sectors reachable in the graph from a sector of S, S included
ReachFrom(S) == IF Successors(S) \subseteq S THEN S ELSE ReachFrom(S \cup Successors(S))

\* C18: a sector that has no entry in changes and is not reachable in the
\* graph from a sector of changes keeps its baseline (0.0 if values does not
\* have it) through the whole call; a frontier entry without outgoing edges
\* causes no effect: every sector a round touches is the target of an edge
\* from a frontier entry.
UnreachableKeepBaseline ==
    /\ []((AfterDirect /\ updated # "unbound")
            => \A s \in DOMAIN heap[updated].items \ ReachFrom(DOMAIN Changes) :
                  Value(s) = Baseline(s))
    /\ [][(AfterDirect /\ IsRound)
            => /\ DOMAIN next_delta' \subseteq Successors(DOMAIN current_delta)
               /\ \A s \in DOMAIN heap[updated].items \ Successors(DOMAIN current_delta) :
                      heap'[updated].items[s] = heap[updated].items[s]
               /\ Successors(DOMAIN current_delta) = {}
                    => /\ next_delta' = EmptyDict
                       /\ max_change' = 0
                       /\ pc' = "ar_return"]_vars

\* a call with the scenario's graph has returned after a round whose frontier
\* was power alone, with the unreachable sectors transport and industry at
\* their baseline
UnreachableKeepBaseline_Witness ==
    /\ pc = "done"
    /\ Graph = ScenarioGraph
    /\ DOMAIN Changes = {"power"}
    /\ Pct(Changes["power"]) # 0
    /\ Baseline("power") # 0
    /\ rounds = 1
    /\ next_delta = EmptyDict
    /\ {"transport", "industry"} \subseteq DOMAIN heap[result].items
    /\ Value("transport") = Baseline("transport")
    /\ Baseline("transport") # 0


----------------------------------------------------------------------------
RECURSIVE MaxEffect(_)
\* the largest |effect| over a set of edges, 0.0 for the empty set
MaxEffect(edges) ==
    IF edges = {} THEN 0
    ELSE LET e == CHOOSE x \in edges : TRUE
         IN  Max(Abs(EdgeEffect(e[1], e[2])), MaxEffect(edges \ {e}))

\* C19: in a round, a frontier entry with |delta| < tol has no effect on any
\* target; an effect with |effect| < tol is neither added to its target nor
\* put into the next frontier; every effect with |effect| >= tol is added to
\* its target's value and accumulated into the next frontier.
ToleranceFilter ==
    [][(AfterDirect /\ IsRound)
        => /\ DOMAIN next_delta' = RoundTargets
           /\ \A b \in RoundTargets : next_delta'[b] = EffectsInto(b)
           /\ \A s \in DOMAIN heap'[updated].items :
                  ToFloat(heap'[updated].items[s])
                     = ToFloat(Get(heap[updated].items, s, Float(0)))
                         + (IF s \in RoundTargets THEN EffectsInto(s) ELSE 0)
           /\ max_change' = MaxEffect(AppliedEdges)
           /\ \A e \in RoundEdges \ AppliedEdges :
                  (\A a \in DOMAIN current_delta : <<a, e[2]>> \notin AppliedEdges)
                     => /\ e[2] \notin DOMAIN next_delta'
                        /\ heap'[updated].items[e[2]] = heap[updated].items[e[2]]]_vars

\* with tolerance 400 on the cycle: the frontier entry -200 of transport was
\* below it and had no effect on industry, the effect -400 of industry on
\* transport was at it and was applied
ToleranceFilter_Witness ==
    /\ tol = 400 * Scale * TolDen
    /\ Graph = CycleGraph
    /\ rounds = 1
    /\ direct_delta = [s \in {"transport", "industry"} |->
                          IF s = "transport" THEN -200 * Scale ELSE -400 * Scale]
    /\ next_delta = [s \in {"transport"} |-> -400 * Scale]
    /\ Value("transport") = 400 * Scale
    /\ Value("industry") = 1600 * Scale


----------------------------------------------------------------------------
\* the largest |effect| in units of 1/Scale that is still <= tol
TolFloor == tol \div TolDen

\* C20: a round is the last one exactly when its largest applied |effect| is
\* <= tol or its next frontier is empty; otherwise the accumulated next
\* frontier becomes the frontier and, unless the cap is reached, the next
\* step of the loop is another round. When the largest applied effect equals
\* tol, it has been applied and no further round runs.
StopCondition ==
    /\ [][(AfterDirect /\ IsRound)
            => /\ pc' = "ar_return" <=> (max_change' <= TolFloor \/ next_delta' = EmptyDict)
               /\ pc' # "ar_return" => (pc' = "ar_loop" /\ current_delta' = next_delta')
               /\ (max_change' > 0 /\ max_change' = TolFloor /\ tol % TolDen = 0)
                    => /\ pc' = "ar_return"
                       /\ next_delta' # EmptyDict
                       /\ heap'[updated] # heap[updated]]_vars
    /\ [][(pc = "ar_loop" /\ rounds >= 1)
            => IF iteration < max_iterations
               THEN IsRound \/ pc' = "raised"
               ELSE pc' = "ar_return" /\ rounds' = rounds]_vars
    /\ [](pc \in {"ar_return", "done"} /\ rounds >= 1
            => (max_change <= TolFloor \/ iteration = max_iterations))

\* a call that could run two rounds has returned after one, whose largest
\* effect -400 was equal to the tolerance and was applied
StopCondition_Witness ==
    /\ pc = "done"
    /\ tol = 400 * Scale * TolDen
    /\ max_change = 400 * Scale
    /\ rounds = 1
    /\ max_iterations = 2
    /\ next_delta # EmptyDict
    /\ \E s \in DOMAIN next_delta : Value(s) = DirectOnly(s) + next_delta[s]


----------------------------------------------------------------------------
\* baseline[b] * p for a sector of changes, 0.0 for any other sector
DirectOf(b) == IF b \in DOMAIN Changes THEN Mul(Baseline(b), Pct(Changes[b])) ELSE 0

\* C21: from the end of the direct step to the return, for every sector b of
\* the universe, value[b] = baseline[b] + directDelta[b] + the sum over the
\* rounds run so far of the round's next-frontier entry for b; a step that is
\* not a round changes no value.
Accounting ==
    /\ []((AfterDirect /\ updated # "unbound")
            => \A b \in DOMAIN heap[updated].items :
                  /\ Value(b) = Baseline(b) + DirectOf(b) + Get(cascaded, b, 0)
                  /\ Get(direct_delta, b, 0) = DirectOf(b))
    /\ [][IsRound
            => \A b \in DOMAIN heap'[updated].items :
                  Get(cascaded', b, 0) = Get(cascaded, b, 0) + Get(next_delta', b, 0)]_vars
    /\ [][(AfterDirect /\ ~IsRound)
            => (heap'[updated] = heap[updated] /\ cascaded' = cascaded)]_vars

\* a call has returned after two or more rounds around the cycle: transport
\* holds its baseline, its direct delta and what the rounds added
Accounting_Witness ==
    /\ pc = "done"
    /\ Graph = CycleGraph
    /\ rounds >= 2
    /\ "transport" \in DOMAIN Changes
    /\ DirectOf("transport") # 0
    /\ Get(cascaded, "transport", 0) # 0
    /\ Get(cascaded, "industry", 0) # 0
    /\ Value("transport") = Baseline("transport") + DirectOf("transport") + cascaded["transport"]


----------------------------------------------------------------------------
RECURSIVE StepsFrom(_, _)
\* the sectors at the end of a directed walk of exactly n edges from a sector of S
StepsFrom(S, n) == IF n = 0 THEN S ELSE Successors(StepsFrom(S, n - 1))

\* the sectors at directed distance at most n from a sector of S
WithinSteps(S, n) == UNION {StepsFrom(S, k) : k \in 0..n}

\* C22: the frontier round k processes holds only sectors at the end of a
\* walk of exactly k-1 edges from a sector of changes; a sector farther than
\* the number of rounds run from every changed sector still has its baseline,
\* so with max_iterations = N a sector at distance greater than N has its
\* baseline in the result.
CascadeLocality ==
    (AfterDirect /\ updated # "unbound")
    => /\ pc = "ar_loop" => DOMAIN current_delta \subseteq StepsFrom(DOMAIN Changes, rounds)
       /\ rounds >= 1 => DOMAIN next_delta \subseteq StepsFrom(DOMAIN Changes, rounds)
       /\ \A s \in DOMAIN heap[updated].items \ WithinSteps(DOMAIN Changes, rounds) :
              Value(s) = Baseline(s)
       /\ pc = "done"
            => \A s \in DOMAIN heap[result].items \ WithinSteps(DOMAIN Changes, max_iterations) :
                   heap[result].items[s] = Float(Baseline(s))

\* on the chain, a call limited to one round has returned: industry, one edge
\* from transport, has moved; power, two edges away, has its baseline
CascadeLocality_Witness ==
    /\ pc = "done"
    /\ Graph = ChainGraph
    /\ DOMAIN Changes = {"transport"}
    /\ max_iterations = 1
    /\ rounds = 1
    /\ Value("industry") # Baseline("industry")
    /\ Baseline("power") # 0
    /\ "power" \notin WithinSteps(DOMAIN Changes, 1)
    /\ "power" \in StepsFrom(DOMAIN Changes, 2)
    /\ heap[result].items["power"] = Float(Baseline("power"))


----------------------------------------------------------------------------
\* every entry of the change map is the number 0, or is for a sector whose
\* baseline is 0 or that the values map does not have
AllChangesZero ==
    \A s \in DOMAIN Changes :
        \/ (Changes[s].t = "float" /\ Changes[s].v = 0)
        \/ Baseline(s) = 0

\* C23: when every change entry is 0, or is for a sector with baseline 0 or
\* absent from values, every direct delta is 0; the entries are seeded into
\* the frontier but no effect is ever applied, the loop stops after its first
\* round, and every sector has its baseline in the result.
ZeroChangesNoOp ==
    (AfterDirect /\ updated # "unbound" /\ AllChangesZero)
    => /\ direct_delta = [s \in DOMAIN Changes |-> 0]
       /\ (pc = "ar_loop" /\ rounds = 0) => current_delta = [s \in DOMAIN Changes |-> 0]
       /\ next_delta = EmptyDict
       /\ max_change = 0
       /\ cascaded = EmptyDict
       /\ rounds <= 1
       /\ rounds = 1 => pc \in {"ar_return", "done"}
       /\ (pc = "done" /\ max_iterations >= 1 /\ DOMAIN Changes # {}) => rounds = 1
       /\ \A s \in DOMAIN heap[updated].items : Value(s) = Baseline(s)
       /\ pc = "done"
            => heap[result].items = [s \in DOMAIN heap[result].items |-> Float(Baseline(s))]

\* the facade has returned for two untouched sliders (0 for transport and for
\* industry) under the default graph, after one round without effect
ZeroChangesNoOp_Witness ==
    /\ entry = "run_simulation"
    /\ pc = "done"
    /\ heap["arg_rules"] = NoneObj
    /\ heap["arg_changes"] = Dict([s \in {"transport", "industry"} |-> Float(0)])
    /\ heap["arg_data"] = Dict([s \in Sectors |-> Float(BaseValue(s))])
    /\ rounds = 1
    /\ direct_delta = [s \in {"transport", "industry"} |-> 0]
    /\ Value("power") = BaseValue("power")


----------------------------------------------------------------------------
\* the raw change map has no number of magnitude above 100
RawWithin100 ==
    \A s \in DOMAIN heap["arg_changes"].items :
        LET v == heap["arg_changes"].items[s]
        IN  v.t = "float" => Abs(v.v) <= 100 * Scale

\* C24: when every raw value has magnitude at most 100, every normalized
\* value lies in [-1, 1] and normalizing the normalizer's output again gives
\* that same map.
NormalizerIdempotent ==
    (Normalized /\ RawWithin100)
    => /\ \A s \in DOMAIN heap["normalized"].items :
              /\ heap["normalized"].items[s].v >= -Scale
              /\ heap["normalized"].items[s].v <= Scale
       /\ NormalizeChanges(heap["normalized"]) = heap["normalized"]

\* the normalizer has returned for 100 and -20: the outputs 1.0 and -0.2 are
\* in range and a second pass leaves them alone
NormalizerIdempotent_Witness ==
    /\ entry = "_normalize_changes"
    /\ pc = "done"
    /\ RawWithin100
    /\ \E a, b \in DOMAIN heap["arg_changes"].items :
          /\ heap["arg_changes"].items[a] = Float(100 * Scale)
          /\ heap["arg_changes"].items[b] = Float(-20 * Scale)
          /\ heap[result].items[a] = Float(Scale)
          /\ heap[result].items[b] = Float(-2000)
    /\ NormalizeChanges(heap[result]) = heap[result]

====
